---- MODULE Spec2Model ----
(***************************************************************************)
(* ClearCanvas: selection -> mask -> composite pipeline.                   *)
(*                                                                         *)
(*   App.tsx            originalImage / processedImage / status / errorMsg *)
(*   Editor.tsx         mode, selections, drag state, mask generation      *)
(*   geminiService      removeWatermark, compositeImage (unnamed/part_001) *)
(*                                                                         *)
(* Images are records [w, h, px]; px is the row-major sequence of          *)
(* <<r, g, b, a>> pixels (the layout of ImageData.data).  A data URL is    *)
(* modelled by the image it encodes; Undecodable stands for data that is   *)
(* no image ("data:," of a 0x0 canvas, garbage returned by the service).   *)
(* Rect and Point coordinates are real-valued in the code; the model keeps *)
(* them as integer multiples of 1/SubPixel of an image pixel.              *)
(***************************************************************************)
EXTENDS Integers, Sequences, FiniteSets, Bags

\* ------------------------------------------------------------------ bounds
SubPixel == 2          \* coordinate resolution: units per image pixel
ImgW     == 8          \* native width of the uploaded images
ImgH     == 7          \* native height of the uploaded images
MaxSel   == 1          \* committed rectangles kept in the list
MaxCalls == 2          \* removeWatermark calls in flight
MaxReads == 1          \* FileReader loads pending in ImageUploader

MaxList  == 2          \* committed rectangles kept in the list, Editor alone
MinSize  == 5          \* Editor.tsx:138   width > 5 && height > 5

\* ------------------------------------------------------------ pixel algebra
Min(a, b) == IF a < b THEN a ELSE b
Max(a, b) == IF a > b THEN a ELSE b
Abs(a)    == IF a < 0 THEN -a ELSE a

\* a*b/255 rounded to nearest: 8-bit channel arithmetic of a canvas bitmap
MulDiv255(a, b) == (a * b + 127) \div 255

Transparent == <<0, 0, 0, 0>>

\* A canvas bitmap stores colour premultiplied by alpha.
Premul(p) == <<MulDiv255(p[1], p[4]), MulDiv255(p[2], p[4]), MulDiv255(p[3], p[4]), p[4]>>

\* getImageData / toDataURL give back straight (non-premultiplied) colour.
Unpremul(q) ==
  IF q[4] = 0 THEN Transparent
  ELSE <<Min(255, (q[1] * 255 + q[4] \div 2) \div q[4]),
         Min(255, (q[2] * 255 + q[4] \div 2) \div q[4]),
         Min(255, (q[3] * 255 + q[4] \div 2) \div q[4]),
         q[4]>>

\* globalCompositeOperation 'source-over' (the default): s drawn over d
SourceOver(s, d) == [i \in 1..4 |-> Min(255, s[i] + MulDiv255(d[i], 255 - s[4]))]

\* globalCompositeOperation 'destination-in': d kept where s is opaque
DestinationIn(s, d) == [i \in 1..4 |-> MulDiv255(d[i], s[4])]

\* A decoded image holds 8-bit premultiplied pixels too: the straight colour
\* the browser reports for a pixel of a decoded file
DecodePixel(p) == Unpremul(Premul(p))

\* ------------------------------------------------------------------ images
\* null; a record, so that it compares with images, rects and points
Null == [null |-> TRUE]

\* a data URL that holds no image: loadImage rejects (img.onerror)
Undecodable == [w |-> 0, h |-> 0, px |-> <<>>]

\* loadImage resolves
Decodable(img) == img # Null /\ img.w > 0 /\ img.h > 0

PixelAt(img, x, y) == img.px[y * img.w + x + 1]

\* column and row of the i-th entry (1-based) of a row-major pixel sequence
XOf(i, w) == (i - 1) % w
YOf(i, w) == (i - 1) \div w

\* document.createElement('canvas') with width/height set: transparent black
NewCanvas(w, h) == [w |-> w, h |-> h, px |-> [i \in 1..(w * h) |-> Transparent]]

\* drawImage(img, 0, 0) where the stretch was meant: the image at its own size
ResampleUnscaled(img, w, h) == img

\* drawImage(img, 0, 0, w, h): img stretched to w x h.  Equal sizes copy
\* pixel for pixel; otherwise the pixel is sampled at the centre of the
\* destination pixel (the smoothing filter itself is left to the browser).
Resample(img, w, h) ==
  IF img.w = w /\ img.h = h THEN img
  ELSE [w |-> w, h |-> h, px |-> [i \in 1..(w * h) |->
         PixelAt(img, ((2 * XOf(i, w) + 1) * img.w) \div (2 * w),
                      ((2 * YOf(i, w) + 1) * img.h) \div (2 * h))]]

\* ctx.drawImage(image, 0, 0) of a decoded image (straight colour) onto a
\* canvas, with the default 'source-over'
DrawImage(canvas, img) ==
  [canvas EXCEPT !.px = [i \in 1..(canvas.w * canvas.h) |->
     IF XOf(i, canvas.w) < img.w /\ YOf(i, canvas.w) < img.h
     THEN SourceOver(Premul(PixelAt(img, XOf(i, canvas.w), YOf(i, canvas.w))), canvas.px[i])
     ELSE canvas.px[i]]]

\* ctx.drawImage(image, 0, 0, w, h): the image stretched to the canvas size
DrawImageScaled(canvas, img) == DrawImage(canvas, Resample(img, canvas.w, canvas.h))

\* ctx.drawImage(otherCanvas, 0, 0) with 'destination-over': src goes beneath
DrawCanvasUnder(canvas, src) ==
  [canvas EXCEPT !.px = [i \in 1..(canvas.w * canvas.h) |->
     IF XOf(i, canvas.w) < src.w /\ YOf(i, canvas.w) < src.h
     THEN SourceOver(canvas.px[i], PixelAt(src, XOf(i, canvas.w), YOf(i, canvas.w)))
     ELSE canvas.px[i]]]

\* ctx.drawImage(otherCanvas, 0, 0) with 'source-over'
DrawCanvasOver(canvas, src) ==
  [canvas EXCEPT !.px = [i \in 1..(canvas.w * canvas.h) |->
     IF XOf(i, canvas.w) < src.w /\ YOf(i, canvas.w) < src.h
     THEN SourceOver(PixelAt(src, XOf(i, canvas.w), YOf(i, canvas.w)), canvas.px[i])
     ELSE canvas.px[i]]]

\* ctx.drawImage(otherCanvas, 0, 0) with 'destination-in': outside the
\* source the destination is cleared
DrawCanvasIn(canvas, src) ==
  [canvas EXCEPT !.px = [i \in 1..(canvas.w * canvas.h) |->
     IF XOf(i, canvas.w) < src.w /\ YOf(i, canvas.w) < src.h
     THEN DestinationIn(PixelAt(src, XOf(i, canvas.w), YOf(i, canvas.w)), canvas.px[i])
     ELSE Transparent]]

\* ctx.getImageData(0, 0, w, h).data: straight colour
GetImageData(canvas) == [i \in 1..(canvas.w * canvas.h) |-> Unpremul(canvas.px[i])]

\* ctx.putImageData(data, 0, 0): replaces the pixels, no blending
PutImageData(canvas, data) == [canvas EXCEPT !.px = [i \in 1..(canvas.w * canvas.h) |-> Premul(data[i])]]

\* canvas.toDataURL('image/png'): lossless encoding of the straight pixels;
\* a canvas without pixels gives "data:,", which is no image
ToDataURL(canvas) ==
  IF Decodable(canvas)
  THEN [canvas EXCEPT !.px = [i \in 1..(canvas.w * canvas.h) |-> Unpremul(canvas.px[i])]]
  ELSE Undecodable

\* ---------------------------------------------------------------- geometry
\* Rect {x, y, width, height} and Point {x, y} of types.ts, in 1/SubPixel px.
Rect(x, y, width, height) == [x |-> x, y |-> y, width |-> width, height |-> height]

\* length of the overlap of [lo, lo + len) with pixel column/row k
Overlap(lo, len, k) == Max(0, Min(lo + len, (k + 1) * SubPixel) - Max(lo, k * SubPixel))

\* share of pixel (x, y) covered by rect, as an 8-bit alpha (anti-aliased edge)
Coverage(rect, x, y) ==
  (255 * 2 * Overlap(rect.x, rect.width, x) * Overlap(rect.y, rect.height, y)
     + SubPixel * SubPixel) \div (2 * SubPixel * SubPixel)

\* ctx.fillStyle = colour; ctx.fillRect(x, y, width, height)
FillRect(canvas, rect, colour) ==
  [canvas EXCEPT !.px = [i \in 1..(canvas.w * canvas.h) |->
     SourceOver(Premul(<<colour[1], colour[2], colour[3],
                         MulDiv255(colour[4], Coverage(rect, XOf(i, canvas.w), YOf(i, canvas.w)))>>),
                canvas.px[i])]]

Black == <<0, 0, 0, 255>>
White == <<255, 255, 255, 255>>

RECURSIVE FillAll(_, _, _)
\* selections.forEach(rect => mCtx.fillRect(...)) with fillStyle 'white'
FillAll(canvas, rects, colour) ==
  IF rects = <<>> THEN canvas
  ELSE FillAll(FillRect(canvas, Head(rects), colour), Tail(rects), colour)

\* The mask canvas of handleProcessClick: black background, white selections
Rasterize(rects, w, h) ==
  FillAll(FillRect(NewCanvas(w, h), Rect(0, 0, w * SubPixel, h * SubPixel), Black), rects, White)

\* ------------------------------------------------------------- compositing
\* an alpha mask taken from the red channel
AlphaFromRed(data) == [i \in DOMAIN data |-> <<data[i][1], data[i][2], data[i][3], data[i][1]>>]

\* The alpha mask of compositeImage: alpha := green channel of the mask
AlphaFromGreen(data) == [i \in DOMAIN data |-> <<data[i][1], data[i][2], data[i][3], data[i][2]>>]

AlphaMaskCanvas(mask, w, h) ==
  LET drawn == DrawImageScaled(NewCanvas(w, h), mask)
  IN  PutImageData(drawn, AlphaFromGreen(GetImageData(drawn)))

\* the replacement layer without the 'destination-in' cut
MaskedResultUncut(mask, result, w, h) == DrawImageScaled(NewCanvas(w, h), result)

\* the replacement layer: result stretched, then cut by the alpha mask
MaskedResult(mask, result, w, h) ==
  DrawCanvasIn(DrawImageScaled(NewCanvas(w, h), result), AlphaMaskCanvas(mask, w, h))

\* compositeImage after the three loads succeeded (the try block)
Composite(original, mask, result) ==
  LET w      == original.w
      h      == original.h
      canvas == DrawImage(NewCanvas(w, h), original)
  IN  ToDataURL(DrawCanvasOver(canvas, MaskedResult(mask, result, w, h)))

\* ------------------------------------------------------------- environment
\* The files the user can upload (decoded content of the data URL).
ImageIds == {1, 2}

\* Image 1 is a PNG with an alpha channel: its last column holds transparent
\* and translucent pixels.  Image 2 is opaque.
Upload ==
  [id \in ImageIds |->
    [w |-> ImgW, h |-> ImgH, px |-> [i \in 1..(ImgW * ImgH) |->
       IF id = 1
       THEN DecodePixel(<<200 - 10 * XOf(i, ImgW), 100, 50 + 20 * YOf(i, ImgW),
                          IF XOf(i, ImgW) < ImgW - 1 THEN 255
                          ELSE IF YOf(i, ImgW) % 2 = 0 THEN 0 ELSE 128>>)
       ELSE <<10 + 20 * XOf(i, ImgW), 20 + 25 * YOf(i, ImgW), 90, 255>>]]]

\* What the generative service may answer with (part.inlineData.data): an
\* opaque image of the submitted size, an opaque one of twice the
\* resolution, one with transparent and translucent pixels, or no image.
ResultKinds == {"red", "big", "alpha", "broken"}

ServiceImage ==
  [kind \in ResultKinds |->
    CASE kind = "red"   -> [w |-> ImgW, h |-> ImgH,
                            px |-> [i \in 1..(ImgW * ImgH) |-> <<255, 0, 0, 255>>]]
      [] kind = "big"   -> [w |-> 2 * ImgW, h |-> 2 * ImgH,
                            px |-> [i \in 1..(4 * ImgW * ImgH) |->
                                      <<5 * XOf(i, 2 * ImgW), 250, 5 * YOf(i, 2 * ImgW), 255>>]]
      [] kind = "alpha" -> [w |-> ImgW, h |-> ImgH,
                            px |-> [i \in 1..(ImgW * ImgH) |->
                                      DecodePixel(<<0, 60, 240,
                                        CASE (XOf(i, ImgW) + YOf(i, ImgW)) % 3 = 0 -> 255
                                          [] (XOf(i, ImgW) + YOf(i, ImgW)) % 3 = 1 -> 128
                                          [] OTHER -> 0>>)]]
      [] OTHER          -> Undecodable]

\* Pointer positions (clientX, clientY) the user produces, and the on-screen
\* origin of the canvas (getBoundingClientRect().left/.top).
CanvasBox == [left |-> 10, top |-> 20]

AppPointers == {<<10, 20>>, <<16, 26>>, <<23, 33>>}

\* the file uploaded in the pipeline specification
AppImages == {1}

\* display pixels per image pixel after draw() fitted the canvas
DisplayScales == {1, SubPixel}

\* ------------------------------------------------------------------- state
VARIABLES
  originalImage,     \* App: the uploaded image (data URL), or Null
  processedImage,    \* App: the final image shown by CompareSlider, or Null
  status,            \* App: ProcessingStatus
  errorMsg,          \* App: TRUE iff an error message is set
  mode,              \* Editor: ProcessMode
  selections,        \* Editor: committed Rects
  currentSelection,  \* Editor: in-progress Rect, or Null
  isDrawing,         \* Editor
  startPoint,        \* Editor: anchor Point, or Null
  imageRef,          \* Editor: the image decoded in imageRef.current, or Null
  dispScale,         \* window: display scale draw() computes from the container
  reads,             \* ImageUploader: FileReader loads not yet delivered
  calls,             \* bag of the removeWatermark invocations in flight
  alertOpen,         \* a modal alert() is on screen
  last               \* how the image in processedImage was produced

appVars    == <<originalImage, processedImage, status, errorMsg>>
editorVars == <<mode, selections, currentSelection, isDrawing, startPoint, imageRef>>
vars == <<originalImage, processedImage, status, errorMsg, mode, selections,
          currentSelection, isDrawing, startPoint, imageRef, dispScale, reads,
          calls, alertOpen, last>>

\* Editor is rendered iff an image is selected and no result is shown
EditorMounted(orig, proc) == orig # Null /\ proc = Null

\* the isProcessing prop
isProcessing == status = "PROCESSING"

\* imageLoaded: set by img.onload, never reset
imageLoaded == imageRef # Null

NoLast == [outcome |-> "none"]

Init ==
  /\ originalImage = Null
  /\ processedImage = Null
  /\ status = "IDLE"
  /\ errorMsg = FALSE
  /\ mode = "auto"
  /\ selections = <<>>
  /\ currentSelection = Null
  /\ isDrawing = FALSE
  /\ startPoint = Null
  /\ imageRef = Null
  /\ dispScale \in DisplayScales
  /\ reads = <<>>
  /\ calls = EmptyBag
  /\ alertOpen = FALSE
  /\ last = NoLast

\* ------------------------------------------------------------------ Editor
\* useState initial values: a freshly mounted (or unmounted) Editor
EditorInitial ==
  /\ mode' = "auto"
  /\ selections' = <<>>
  /\ currentSelection' = Null
  /\ isDrawing' = FALSE
  /\ startPoint' = Null
  /\ imageRef' = Null

\* an Editor that is hidden, not unmounted, while the result is shown
EditorAfterKept(orig, proc) == UNCHANGED editorVars

\* React keeps the Editor's state while it stays rendered and drops it when
\* App renders something else in its place.
EditorAfter(orig, proc) ==
  IF EditorMounted(originalImage, processedImage) /\ EditorMounted(orig, proc)
  THEN UNCHANGED editorVars
  ELSE EditorInitial

\* img.onload of the image-load effect
EditorImageOnload ==
  /\ EditorMounted(originalImage, processedImage)
  /\ imageRef # originalImage
  /\ imageRef' = originalImage
  /\ UNCHANGED <<originalImage, processedImage, status, errorMsg, mode, selections,
                 currentSelection, isDrawing, startPoint, dispScale, reads, calls,
                 alertOpen, last>>

\* window resize -> draw() refits the canvas
Resize(scale) ==
  /\ scale # dispScale
  /\ dispScale' = scale
  /\ UNCHANGED <<appVars, editorVars, reads, calls, alertOpen, last>>

\* canvas.width/height (300 x 150 until draw() sized it to the image)
CanvasWidth  == IF imageLoaded THEN imageRef.w ELSE 300
CanvasHeight == IF imageLoaded THEN imageRef.h ELSE 150
\* getBoundingClientRect().width/height
RectWidth  == IF imageLoaded THEN imageRef.w * dispScale ELSE 300
RectHeight == IF imageLoaded THEN imageRef.h * dispScale ELSE 150

\* the same mapping with the result clamped to the canvas
toImageSpaceClamped(client, canvasW, canvasH, rectW, rectH) ==
  [x |-> Max(0, Min(canvasW * SubPixel,
                    ((client[1] - CanvasBox.left) * canvasW * SubPixel) \div rectW)),
   y |-> Max(0, Min(canvasH * SubPixel,
                    ((client[2] - CanvasBox.top) * canvasH * SubPixel) \div rectH))]

\* x = (clientX - rect.left) * scaleX, y = (clientY - rect.top) * scaleY
toImageSpace(client, canvasW, canvasH, rectW, rectH) ==
  [x |-> ((client[1] - CanvasBox.left) * canvasW * SubPixel) \div rectW,
   y |-> ((client[2] - CanvasBox.top) * canvasH * SubPixel) \div rectH]

getCanvasCoordinates(client) ==
  toImageSpace(client, CanvasWidth, CanvasHeight, RectWidth, RectHeight)

\* a rectangle from the anchor to the pointer with signed sides
BoundingRectSigned(start, current) ==
  Rect(start.x, start.y, current.x - start.x, current.y - start.y)

\* the in-progress rectangle of handleMove
BoundingRect(start, current) ==
  Rect(Min(start.x, current.x), Min(start.y, current.y),
       Abs(current.x - start.x), Abs(current.y - start.y))

\* a start that commits the rectangle of the drag it interrupts
handleStartCommits(client) ==
  /\ EditorMounted(originalImage, processedImage)
  /\ IF mode # "manual" \/ isProcessing
     THEN UNCHANGED <<isDrawing, startPoint, currentSelection, selections>>
     ELSE LET point == getCanvasCoordinates(client)
          IN  /\ isDrawing' = TRUE
              /\ startPoint' = point
              /\ currentSelection' = Rect(point.x, point.y, 0, 0)
              /\ selections' = IF isDrawing /\ currentSelection # Null
                                  /\ currentSelection.width > MinSize * SubPixel
                                  /\ currentSelection.height > MinSize * SubPixel
                               THEN Append(selections, currentSelection)
                               ELSE selections
  /\ UNCHANGED <<appVars, mode, imageRef, dispScale, reads, calls, alertOpen, last>>

handleStart(client) ==
  /\ EditorMounted(originalImage, processedImage)
  /\ IF mode # "manual" \/ isProcessing
     THEN UNCHANGED <<isDrawing, startPoint, currentSelection>>
     ELSE LET point == getCanvasCoordinates(client)
          IN  /\ isDrawing' = TRUE
              /\ startPoint' = point
              /\ currentSelection' = Rect(point.x, point.y, 0, 0)
  /\ UNCHANGED <<appVars, mode, selections, imageRef, dispScale, reads, calls, alertOpen, last>>

handleMove(client) ==
  /\ EditorMounted(originalImage, processedImage)
  /\ IF ~isDrawing \/ startPoint = Null \/ mode # "manual"
     THEN UNCHANGED currentSelection
     ELSE currentSelection' = BoundingRect(startPoint, getCanvasCoordinates(client))
  /\ UNCHANGED <<appVars, mode, selections, isDrawing, startPoint, imageRef, dispScale,
                 reads, calls, alertOpen, last>>

\* the size test with >= in place of >
BigEnoughInclusive(rect) == rect.width >= MinSize * SubPixel /\ rect.height >= MinSize * SubPixel

\* currentSelection.width > 5 && currentSelection.height > 5
BigEnough(rect) == rect.width > MinSize * SubPixel /\ rect.height > MinSize * SubPixel

\* isDrawing && currentSelection, without the size test
CommitsAnySize == isDrawing /\ currentSelection # Null

\* isDrawing && currentSelection && width > 5 && height > 5
Commits == isDrawing /\ currentSelection # Null /\ BigEnough(currentSelection)

\* an end that forgets to drop the anchor
handleEndKeepsAnchor ==
  /\ EditorMounted(originalImage, processedImage)
  /\ selections' = IF Commits THEN Append(selections, currentSelection) ELSE selections
  /\ isDrawing' = FALSE
  /\ currentSelection' = Null
  /\ UNCHANGED <<appVars, mode, startPoint, imageRef, dispScale, reads, calls, alertOpen, last>>

handleEnd ==
  /\ EditorMounted(originalImage, processedImage)
  /\ selections' = IF Commits THEN Append(selections, currentSelection) ELSE selections
  /\ isDrawing' = FALSE
  /\ startPoint' = Null
  /\ currentSelection' = Null
  /\ UNCHANGED <<appVars, mode, imageRef, dispScale, reads, calls, alertOpen, last>>

\* prev.slice(0, -1)
\* prev.slice(1): the oldest rectangle goes instead of the newest
DropFirst(prev) == IF prev = <<>> THEN <<>> ELSE Tail(prev)

DropLast(prev) == IF prev = <<>> THEN <<>> ELSE SubSeq(prev, 1, Len(prev) - 1)

\* the undo button: rendered in manual mode, disabled on an empty list
undoSelection ==
  /\ EditorMounted(originalImage, processedImage)
  /\ mode = "manual" /\ selections # <<>>
  /\ selections' = DropLast(selections)
  /\ UNCHANGED <<appVars, mode, currentSelection, isDrawing, startPoint, imageRef,
                 dispScale, reads, calls, alertOpen, last>>

\* a clear that also abandons the drag in progress
clearSelectionsAndDrag ==
  /\ EditorMounted(originalImage, processedImage)
  /\ mode = "manual" /\ selections # <<>>
  /\ selections' = <<>>
  /\ isDrawing' = FALSE
  /\ startPoint' = Null
  /\ currentSelection' = Null
  /\ UNCHANGED <<appVars, mode, imageRef, dispScale, reads, calls, alertOpen, last>>

\* the clear button: rendered in manual mode, disabled on an empty list
clearSelections ==
  /\ EditorMounted(originalImage, processedImage)
  /\ mode = "manual" /\ selections # <<>>
  /\ selections' = <<>>
  /\ UNCHANGED <<appVars, mode, currentSelection, isDrawing, startPoint, imageRef,
                 dispScale, reads, calls, alertOpen, last>>

\* toolbar buttons that all clear the list, the manual one included
SelectModeAlwaysClears(m) ==
  /\ EditorMounted(originalImage, processedImage)
  /\ mode' = m
  /\ selections' = <<>>
  /\ UNCHANGED <<appVars, currentSelection, isDrawing, startPoint, imageRef, dispScale,
                 reads, calls, alertOpen, last>>

\* toolbar buttons: auto and tiled also clear the list, manual does not
SelectMode(m) ==
  /\ EditorMounted(originalImage, processedImage)
  /\ mode' = m
  /\ selections' = IF m = "manual" THEN selections ELSE <<>>
  /\ UNCHANGED <<appVars, currentSelection, isDrawing, startPoint, imageRef, dispScale,
                 reads, calls, alertOpen, last>>

\* --------------------------------------------------------------------- App
RemoveAt(seq, i) == SubSeq(seq, 1, i - 1) \o SubSeq(seq, i + 1, Len(seq))

\* ImageUploader.handleFile: an image file is picked; FileReader reads it
SelectFile(id) ==
  /\ originalImage = Null
  /\ reads' = Append(reads, Upload[id])
  /\ UNCHANGED <<appVars, editorVars, dispScale, calls, alertOpen, last>>

\* reader.onload -> onImageSelected -> App.handleImageSelected
handleImageSelected(k) ==
  /\ k \in DOMAIN reads
  /\ originalImage' = reads[k]
  /\ processedImage' = Null
  /\ status' = "IDLE"
  /\ errorMsg' = FALSE
  /\ reads' = RemoveAt(reads, k)
  /\ EditorAfter(reads[k], Null)
  /\ last' = NoLast
  /\ UNCHANGED <<dispScale, calls, alertOpen>>

\* the back button
BackToUpload ==
  /\ originalImage # Null
  /\ originalImage' = Null
  /\ processedImage' = Null
  /\ EditorAfter(Null, Null)
  /\ last' = NoLast
  /\ UNCHANGED <<status, errorMsg, dispScale, reads, calls, alertOpen>>

\* the re-edit button next to the result
ReEdit ==
  /\ originalImage # Null /\ processedImage # Null
  /\ processedImage' = Null
  /\ EditorAfter(originalImage, Null)
  /\ last' = NoLast
  /\ UNCHANGED <<originalImage, status, errorMsg, dispScale, reads, calls, alertOpen>>

\* the arguments of one removeWatermark call; rects remembers the committed
\* list the mask was rasterized from
NewCall(maskBase64, m) ==
  [img |-> originalImage, mask |-> maskBase64, mode |-> m, rects |-> selections]

\* App.handleProcess up to the await: removeWatermark is called
handleProcess(maskBase64, m) ==
  IF originalImage = Null
  THEN UNCHANGED <<status, errorMsg, calls>>
  ELSE /\ status' = "PROCESSING"
       /\ errorMsg' = FALSE
       /\ calls' = calls (+) SetToBag({NewCall(maskBase64, m)})

\* The mask canvas handleProcessClick builds and encodes
GenerateMask(rects, w, h) == ToDataURL(Rasterize(rects, w, h))

\* A mask that is not black and white, at half the width of the image:
\* magenta (no green), green, orange (half green) and a translucent blue.
ColourMask ==
  [w |-> ImgW \div 2, h |-> ImgH, px |-> [i \in 1..((ImgW \div 2) * ImgH) |->
     CASE (XOf(i, ImgW \div 2) + YOf(i, ImgW \div 2)) % 4 = 0 -> <<255, 0, 255, 255>>
       [] (XOf(i, ImgW \div 2) + YOf(i, ImgW \div 2)) % 4 = 1 -> <<0, 255, 0, 255>>
       [] (XOf(i, ImgW \div 2) + YOf(i, ImgW \div 2)) % 4 = 2 -> <<255, 128, 0, 255>>
       [] OTHER -> DecodePixel(<<0, 64, 255, 128>>)]]

\* Every committed list the pointer menu can produce, with its mask and its
\* composites tabulated once, the composites under ColourMask with them (the
\* same values GenerateMask and Composite give; lists or images outside the
\* tables are computed directly).
PointMenu ==
  {toImageSpace(client, ImgW, ImgH, ImgW * scale, ImgH * scale) :
     client \in AppPointers, scale \in DisplayScales}
RectMenu == {r \in {BoundingRect(a, c) : a \in PointMenu, c \in PointMenu} : BigEnough(r)}
ListMenu == UNION {[1..n -> RectMenu] : n \in 1..MaxSel}

MaskTable == [rects \in ListMenu |-> GenerateMask(rects, ImgW, ImgH)]

CompositeTable ==
  [key \in {<<Upload[id], mask, ServiceImage[kind]>> :
              id \in ImageIds,
              mask \in {MaskTable[rects] : rects \in ListMenu} \cup {ColourMask},
              kind \in ResultKinds \ {"broken"}}
     |-> Composite(key[1], key[2], key[3])]

MaskOf(rects, w, h) ==
  IF w = ImgW /\ h = ImgH /\ rects \in DOMAIN MaskTable
  THEN MaskTable[rects]
  ELSE GenerateMask(rects, w, h)

CompositeOf(original, mask, result) ==
  IF <<original, mask, result>> \in DOMAIN CompositeTable
  THEN CompositeTable[<<original, mask, result>>]
  ELSE Composite(original, mask, result)

\* maskCanvas.width/height = imageRef.current.width/height
MaskWidth  == IF imageRef = Null THEN 0 ELSE imageRef.w
MaskHeight == IF imageRef = Null THEN 0 ELSE imageRef.h

\* handleProcessClick without the empty-list check of manual mode
handleProcessClickUnchecked(ctx) ==
  /\ EditorMounted(originalImage, processedImage)
  /\ ~isProcessing
  /\ IF mode = "manual"
     THEN handleProcess(MaskOf(selections, MaskWidth, MaskHeight), "manual")
     ELSE handleProcess(Null, mode)
  /\ UNCHANGED <<originalImage, processedImage, editorVars, dispScale, reads, last, alertOpen>>

\* handleProcessClick that sends a mask whenever rectangles are committed
handleProcessClickAnyMode(ctx) ==
  /\ EditorMounted(originalImage, processedImage)
  /\ ~isProcessing
  /\ IF selections = <<>>
     THEN IF mode = "manual"
          THEN alertOpen' = TRUE /\ UNCHANGED <<status, errorMsg, calls>>
          ELSE handleProcess(Null, mode) /\ UNCHANGED alertOpen
     ELSE handleProcess(MaskOf(selections, MaskWidth, MaskHeight), mode) /\ UNCHANGED alertOpen
  /\ UNCHANGED <<originalImage, processedImage, editorVars, dispScale, reads, last>>

\* Editor.handleProcessClick; the button is disabled while isProcessing.
\* ctx is whether maskCanvas.getContext('2d') gave a context.
handleProcessClick(ctx) ==
  /\ EditorMounted(originalImage, processedImage)
  /\ ~isProcessing
  /\ IF mode = "manual"
     THEN IF selections = <<>>
          THEN /\ alertOpen' = TRUE
               /\ UNCHANGED <<status, errorMsg, calls>>
          ELSE IF ctx
               THEN /\ handleProcess(MaskOf(selections, MaskWidth, MaskHeight), "manual")
                    /\ UNCHANGED alertOpen
               ELSE UNCHANGED <<status, errorMsg, calls, alertOpen>>
     ELSE /\ handleProcess(Null, mode)
          /\ UNCHANGED alertOpen
  /\ UNCHANGED <<originalImage, processedImage, editorVars, dispScale, reads, last>>

\* alert() is modal: nothing else runs until it is dismissed
DismissAlert ==
  /\ alertOpen
  /\ alertOpen' = FALSE
  /\ UNCHANGED <<appVars, editorVars, dispScale, reads, calls, last>>

\* ------------------------------------------------- removeWatermark / service
\* compositing whatever the mode and the mask
NeedsCompositeAlways(call) == TRUE

\* if (maskBase64 && mode === 'manual') return await compositeImage(...)
NeedsComposite(call) == call.mask # Null /\ call.mode = "manual"

\* What can go wrong inside compositeImage: the onerror of one of the three
\* loads, or a getContext('2d') that gives null.
Failures == {"original", "mask", "result", "context"}

\* compositeImage without its catch block's fallback
compositeImageNoFallback(original, mask, result, fail) ==
  IF fail = "none" THEN CompositeOf(original, mask, result) ELSE original

\* compositeImage(originalB64, maskB64, resultB64); fail names the failure
\* that occurs, or is "none"
compositeImage(original, mask, result, fail) ==
  IF fail = "none" THEN CompositeOf(original, mask, result) ELSE result

\* handleProcess after the await resolved with resultBase64
Resolve(call, result, final, how) ==
  /\ processedImage' = final
  /\ status' = "SUCCESS"
  /\ calls' = calls (-) SetToBag({call})
  /\ EditorAfter(originalImage, final)
  /\ last' = [outcome |-> how, img |-> call.img, mask |-> call.mask,
              mode |-> call.mode, rects |-> call.rects, result |-> result]
  /\ UNCHANGED <<originalImage, errorMsg, dispScale, reads, alertOpen>>

\* a catch block that falls back to the original image
ServiceFailsFallback(call) ==
  /\ BagIn(call, calls)
  /\ processedImage' = call.img
  /\ status' = "SUCCESS"
  /\ calls' = calls (-) SetToBag({call})
  /\ EditorAfter(originalImage, call.img)
  /\ last' = [outcome |-> "raw", img |-> call.img, mask |-> call.mask,
              mode |-> call.mode, rects |-> call.rects, result |-> call.img]
  /\ UNCHANGED <<originalImage, errorMsg, dispScale, reads, alertOpen>>

\* generateContent rejects, or the response carries no inline image data:
\* removeWatermark rethrows and handleProcess runs its catch block
ServiceFails(call) ==
  /\ BagIn(call, calls)
  /\ status' = "ERROR"
  /\ errorMsg' = TRUE
  /\ calls' = calls (-) SetToBag({call})
  /\ UNCHANGED <<originalImage, processedImage, editorVars, dispScale, reads, alertOpen, last>>

\* a response composited with a mask of the list as it is on arrival
ServiceReturnsCurrentList(call, kind, fail) ==
  /\ BagIn(call, calls)
  /\ fail = "none"
  /\ Decodable(ServiceImage[kind])
  /\ IF NeedsComposite(call)
     THEN Resolve(call, ServiceImage[kind],
                  CompositeOf(call.img, MaskOf(selections, call.img.w, call.img.h),
                              ServiceImage[kind]),
                  "composite")
     ELSE Resolve(call, ServiceImage[kind], ServiceImage[kind], "raw")

\* The response carries an image part.  Without a mask the image is returned
\* as it is; with one, compositeImage runs: its loads and canvas work touch
\* nothing but its own locals, so they are folded into this step.
ServiceReturns(call, kind, fail) ==
  /\ BagIn(call, calls)
  /\ IF NeedsComposite(call)
     THEN /\ fail = "none" =>
               /\ Decodable(call.img)
               /\ Decodable(call.mask)
               /\ Decodable(ServiceImage[kind])
          /\ Resolve(call, ServiceImage[kind],
                     compositeImage(call.img, call.mask, ServiceImage[kind], fail),
                     IF fail = "none" THEN "composite" ELSE "fallback")
     ELSE /\ fail = "none"
          /\ Resolve(call, ServiceImage[kind], ServiceImage[kind], "raw")

\* The instruction removeWatermark sends: tiled by the mode, otherwise the
\* within-mask instruction when a mask was passed, otherwise the auto one
Prompt(maskBase64, m) ==
  IF m = "tiled" THEN "tiled"
  ELSE IF maskBase64 # Null THEN "manual"
  ELSE "auto"

\* parts of the request: the image, the mask (pushed in the mask branch), the
\* prompt text
Parts(imageBase64, maskBase64, m) ==
  <<[inlineData |-> imageBase64]>>
    \o (IF m # "tiled" /\ maskBase64 # Null THEN <<[inlineData |-> maskBase64]>> ELSE <<>>)
    \o <<[text |-> Prompt(maskBase64, m)]>>

\* -------------------------------------------------------------- specification
\* the Editor's image-load effect has set img.src and onload is due
ImageLoading == EditorMounted(originalImage, processedImage) /\ imageRef # originalImage

\* no alert is open and the Editor, if shown, has decoded its image
Ready == ~alertOpen /\ ~ImageLoading

\* The pipeline: the uploaded data URL is decoded by the Editor before the
\* next event is handled; a modal alert blocks everything else.
Next ==
  \/ alertOpen /\ DismissAlert
  \/ ~alertOpen /\ ImageLoading /\ EditorImageOnload
  \/ Ready /\ \E id \in AppImages : Len(reads) < MaxReads /\ SelectFile(id)
  \/ Ready /\ \E k \in 1..MaxReads : handleImageSelected(k)
  \/ Ready /\ BackToUpload
  \/ Ready /\ ReEdit
  \/ Ready /\ \E client \in AppPointers : handleStart(client)
  \/ Ready /\ \E client \in AppPointers : handleMove(client)
  \/ Ready /\ (Commits => Len(selections) < MaxSel) /\ handleEnd
  \/ Ready /\ undoSelection
  \/ Ready /\ clearSelections
  \/ Ready /\ \E m \in {"auto", "tiled", "manual"} : SelectMode(m)
  \/ Ready /\ \E ctx \in BOOLEAN : BagCardinality(calls) < MaxCalls /\ handleProcessClick(ctx)
  \/ Ready /\ \E call \in BagToSet(calls) : ServiceFails(call)
  \/ Ready /\ \E call \in BagToSet(calls), kind \in ResultKinds, fail \in Failures \cup {"none"} :
                ServiceReturns(call, kind, fail)

Spec == Init /\ [][Next]_vars

\* ------------------------------------------------------- the Editor alone
\* Pointer positions on and around the canvas: its corner, points 5 and 6
\* pixels in, and a point beyond the far corner of a small image (touch
\* moves keep arriving from outside the canvas).
EditorPointers == {<<10, 20>>, <<15, 26>>, <<16, 26>>, <<23, 34>>}

\* mousedown and touchstart reach the canvas only from inside its box
InBox(client) ==
  /\ client[1] - CanvasBox.left \in 0..RectWidth
  /\ client[2] - CanvasBox.top \in 0..RectHeight

\* App has just rendered the Editor for an uploaded image; the image-load
\* effect has set img.src and the image is decoding
EditorInit ==
  /\ originalImage = Upload[1]
  /\ processedImage = Null
  /\ status = "IDLE"
  /\ errorMsg = FALSE
  /\ mode = "auto"
  /\ selections = <<>>
  /\ currentSelection = Null
  /\ isDrawing = FALSE
  /\ startPoint = Null
  /\ imageRef = Null
  /\ dispScale \in DisplayScales
  /\ reads = <<>>
  /\ calls = EmptyBag
  /\ alertOpen = FALSE
  /\ last = NoLast

\* Every event is taken as it comes: the image may still be decoding when
\* the user acts, and the window may be resized.  The service only fails.
EditorNext ==
  \/ alertOpen /\ DismissAlert
  \/ ~alertOpen /\ EditorImageOnload
  \/ ~alertOpen /\ \E scale \in DisplayScales : Resize(scale)
  \/ ~alertOpen /\ \E client \in EditorPointers : InBox(client) /\ handleStart(client)
  \/ ~alertOpen /\ \E client \in EditorPointers : handleMove(client)
  \/ ~alertOpen /\ (Commits => Len(selections) < MaxList) /\ handleEnd
  \/ ~alertOpen /\ undoSelection
  \/ ~alertOpen /\ clearSelections
  \/ ~alertOpen /\ \E m \in {"auto", "tiled", "manual"} : SelectMode(m)
  \/ ~alertOpen /\ \E ctx \in BOOLEAN : calls = EmptyBag /\ handleProcessClick(ctx)
  \/ ~alertOpen /\ \E call \in BagToSet(calls) : ServiceFails(call)

EditorSpec == EditorInit /\ [][EditorNext]_vars

\* ------------------------------------------------------- pointer geometry
\* Drags that leave the canvas on either side: a point left of and above
\* the canvas, its corner, points inside, a point beyond the far corner.
DragPointers == {<<8, 17>>, <<10, 20>>, <<13, 22>>, <<16, 26>>, <<30, 40>>}

DragNext ==
  \/ EditorImageOnload
  \/ \E scale \in DisplayScales : Resize(scale)
  \/ \E client \in DragPointers : InBox(client) /\ handleStart(client)
  \/ \E client \in DragPointers : handleMove(client)
  \/ (Commits => Len(selections) < MaxSel) /\ handleEnd
  \/ \E m \in {"auto", "tiled", "manual"} : SelectMode(m)

DragSpec == EditorInit /\ [][DragNext]_vars

\* ------------------------------------------------ the uploader and the Editor
\* Files may be read while another read is pending (FileReader is
\* asynchronous and the uploader stays on screen until the first onload).
UploadNext ==
  \/ EditorImageOnload
  \/ \E id \in ImageIds : Len(reads) < MaxReads + 1 /\ SelectFile(id)
  \/ \E k \in 1..(MaxReads + 1) : handleImageSelected(k)
  \/ BackToUpload
  \/ \E client \in AppPointers : handleStart(client)
  \/ \E client \in AppPointers : handleMove(client)
  \/ (Commits => Len(selections) < MaxSel) /\ handleEnd
  \/ undoSelection
  \/ clearSelections
  \/ \E m \in {"auto", "tiled", "manual"} : SelectMode(m)

UploadSpec == Init /\ [][UploadNext]_vars

\* ------------------------------------------ going back during a submission
\* The whole App with both images and no drags: the user picks a file,
\* submits in auto or tiled mode, and may go back and pick another file
\* while the call is in flight.
BackNext ==
  \/ EditorImageOnload
  \/ \E id \in ImageIds : Len(reads) < MaxReads /\ SelectFile(id)
  \/ \E k \in 1..MaxReads : handleImageSelected(k)
  \/ BackToUpload
  \/ ReEdit
  \/ \E m \in {"auto", "tiled"} : SelectMode(m)
  \/ \E ctx \in BOOLEAN :
       /\ EditorMounted(originalImage, processedImage) /\ ~isProcessing
       /\ BagCardinality(calls) < MaxCalls
       /\ handleProcessClick(ctx)
  \/ \E call \in BagToSet(calls) : ServiceFails(call)
  \/ \E call \in BagToSet(calls), kind \in ResultKinds : ServiceReturns(call, kind, "none")

BackSpec == Init /\ [][BackNext]_vars

\* ------------------------------------------------- the service module alone
\* removeWatermark is exported and onProcess is a prop: any caller may pass
\* any mask with any mode.  The masks a caller passes:
ServiceMasks ==
  {Null, Undecodable, ColourMask,
   GenerateMask(<<Rect(0, 0, 6 * SubPixel, 6 * SubPixel)>>, ImgW, ImgH)}

\* an App that has its image, with the Editor showing it
ServiceInit ==
  /\ originalImage = Upload[1]
  /\ processedImage = Null
  /\ status = "IDLE"
  /\ errorMsg = FALSE
  /\ mode \in {"auto", "tiled", "manual"}
  /\ selections = <<>>
  /\ currentSelection = Null
  /\ isDrawing = FALSE
  /\ startPoint = Null
  /\ imageRef = originalImage
  /\ dispScale = 1
  /\ reads = <<>>
  /\ calls = EmptyBag
  /\ alertOpen = FALSE
  /\ last = NoLast

\* onProcess(maskBase64, m) called with arguments of the caller's choice
OnProcess(maskBase64, m) ==
  /\ BagCardinality(calls) < MaxCalls
  /\ handleProcess(maskBase64, m)
  /\ UNCHANGED <<originalImage, processedImage, editorVars, dispScale, reads, alertOpen, last>>

ServiceNext ==
  \/ \E maskBase64 \in ServiceMasks, m \in {"auto", "tiled", "manual"} : OnProcess(maskBase64, m)
  \/ \E call \in BagToSet(calls) : ServiceFails(call)
  \/ \E call \in BagToSet(calls), kind \in ResultKinds, fail \in Failures \cup {"none"} :
       ServiceReturns(call, kind, fail)
  \/ ImageLoading /\ EditorImageOnload
  \/ ReEdit

ServiceSpec == ServiceInit /\ [][ServiceNext]_vars

\* ------------------------------------------- compositeImage, load by load
\* The three loadImage promises of compositeImage, each image firing onload
\* or onerror in its own task.  A call whose response arrived is kept in
\* `calls` with the response and the state of its three loads.
LoadNames == {"original", "mask", "result"}

LoadSource(c, n) ==
  CASE n = "original" -> c.img
    [] n = "mask"     -> c.mask
    [] OTHER          -> c.result

IsComposite(c) == "loads" \in DOMAIN c

\* loading one image after the other: only the first load is started
FirstLoading == [n \in LoadNames |-> IF n = "original" THEN "loading" ELSE "idle"]

\* Promise.all([loadImage(..), loadImage(..), loadImage(..)]): the three
\* img.src assignments run before the await
AllLoading == [n \in LoadNames |-> "loading"]

\* Promise.all resolves when every promise has resolved
AllLoaded(loads) == \A n \in LoadNames : loads[n] = "loaded"

\* a promise that waits for onload only: onerror rejects nothing
LoadRejectsNever(ok) == FALSE

\* img.onerror = (e) => reject(e): Promise.all rejects on the first rejection
LoadRejects(ok) == ~ok

\* generateContent resolved with an image part for a call that has a mask in
\* manual mode: compositeImage is entered and starts its loads
StartComposite(call, kind) ==
  /\ BagIn(call, calls)
  /\ ~IsComposite(call)
  /\ NeedsComposite(call)
  /\ calls' = (calls (-) SetToBag({call}))
                 (+) SetToBag({[img |-> call.img, mask |-> call.mask, mode |-> call.mode,
                                rects |-> call.rects, result |-> ServiceImage[kind],
                                loads |-> AllLoading, order |-> <<>>]})
  /\ UNCHANGED <<appVars, editorVars, dispScale, reads, alertOpen, last>>

\* compositeImage returns `final`; removeWatermark returns it and
\* handleProcess sets it (promise continuations run before any other task).
\* Loads still pending then settle promises nobody awaits: they are dropped.
Settle(c, final, how, loads, order) ==
  /\ processedImage' = final
  /\ status' = "SUCCESS"
  /\ calls' = calls (-) SetToBag({c})
  /\ EditorAfter(originalImage, final)
  /\ last' = [outcome |-> how, img |-> c.img, mask |-> c.mask, mode |-> c.mode,
              rects |-> c.rects, result |-> c.result, loads |-> loads, order |-> order]
  /\ UNCHANGED <<originalImage, errorMsg, dispScale, reads, alertOpen>>

\* onload or onerror of one of the three images: an image fires onload iff
\* its data decodes
LoadFires(c, n) ==
  /\ BagIn(c, calls)
  /\ IsComposite(c)
  /\ c.loads[n] = "loading"
  /\ LET ok    == Decodable(LoadSource(c, n))
         loads == [c.loads EXCEPT ![n] = IF ok THEN "loaded" ELSE "failed"]
         order == Append(c.order, n)
     IN  IF LoadRejects(ok)
         THEN Settle(c, c.result, "fallback", loads, order)
         ELSE IF AllLoaded(loads)
         THEN Settle(c, CompositeOf(c.img, c.mask, c.result), "composite", loads, order)
         ELSE /\ calls' = (calls (-) SetToBag({c}))
                            (+) SetToBag({[c EXCEPT !.loads = loads, !.order = order]})
              /\ UNCHANGED <<appVars, editorVars, dispScale, reads, alertOpen, last>>

\* A caller passes a mask in manual mode, one call at a time (the locals of
\* one compositeImage are out of reach of another); the service answers or
\* fails; the loads of the composite in progress fire in any order.
LoadNext ==
  \/ \E maskBase64 \in ServiceMasks \ {Null} :
       calls = EmptyBag /\ OnProcess(maskBase64, "manual")
  \/ \E call \in BagToSet(calls) : ~IsComposite(call) /\ ServiceFails(call)
  \/ \E call \in BagToSet(calls), kind \in ResultKinds : StartComposite(call, kind)
  \/ \E c \in BagToSet(calls), n \in LoadNames : LoadFires(c, n)
  \/ ImageLoading /\ EditorImageOnload
  \/ ReEdit

LoadSpec == ServiceInit /\ [][LoadNext]_vars

\* ---------------------------------------------- every path of a submission
\* The submissions without a composite as well: auto and tiled calls, whose
\* response is returned as it is.
LiveNext ==
  \/ LoadNext
  \/ \E m \in {"auto", "tiled"} : calls = EmptyBag /\ OnProcess(Null, m)
  \/ \E call \in BagToSet(calls), kind \in ResultKinds \ {"broken"} :
       ~IsComposite(call) /\ ~NeedsComposite(call) /\ ServiceReturns(call, kind, "none")

\* generateContent resolves or rejects
ServiceAnswers ==
  \E call \in BagToSet(calls) :
    /\ ~IsComposite(call)
    /\ \/ ServiceFails(call)
       \/ \E kind \in ResultKinds : StartComposite(call, kind)
       \/ \E kind \in ResultKinds \ {"broken"} :
            ~NeedsComposite(call) /\ ServiceReturns(call, kind, "none")

\* a pending image load fires onload or onerror
ImageAnswers == \E c \in BagToSet(calls), n \in LoadNames : LoadFires(c, n)

\* The network and the image decoder answer in the end: a pending call is
\* resolved or rejected, a pending load fires.
LiveSpec ==
  /\ ServiceInit
  /\ [][LiveNext]_vars
  /\ WF_vars(ServiceAnswers)
  /\ WF_vars(ImageAnswers)

\* ================================================================== claims
\* `last` records the submission whose response set the processed image now
\* shown: the original, mask, mode and rectangles of the call, the image the
\* service returned, and whether it was composited.
Composited == last.outcome = "composite"

\* the alpha the compositor derives for pixel i from last.mask
MaskAlpha(i) == AlphaMaskCanvas(last.mask, last.img.w, last.img.h).px[i][4]

\* pixel i of the replacement image resampled to the original's size
Replacement(i) == Resample(last.result, last.img.w, last.img.h).px[i]

\* pixel i lies outside every committed rectangle / fully inside one
OutsideAll(i) ==
  \A k \in 1..Len(last.rects) :
    Coverage(last.rects[k], XOf(i, last.img.w), YOf(i, last.img.w)) = 0
InsideSome(i) ==
  \E k \in 1..Len(last.rects) :
    Coverage(last.rects[k], XOf(i, last.img.w), YOf(i, last.img.w)) = 255

Pixels == 1..(last.img.w * last.img.h)

\* C1: in a composited manual result, every pixel outside every committed
\* rectangle has mask alpha exactly 0, and every pixel of mask alpha 0 equals
\* the original image's pixel at the same coordinates, whatever the
\* resolution of the replacement.
C1_OutsidePreserved ==
  Composited =>
    /\ processedImage.w = last.img.w /\ processedImage.h = last.img.h
    /\ \A i \in Pixels :
         /\ OutsideAll(i) => MaskAlpha(i) = 0
         /\ MaskAlpha(i) = 0 => processedImage.px[i] = last.img.px[i]

\* C1 witness: a composited result of a replacement of another resolution,
\* with a translucent original pixel outside the rectangles and a pixel that
\* was replaced
C1_Witness ==
  /\ Composited
  /\ last.result.w # last.img.w
  /\ \E i \in Pixels : OutsideAll(i) /\ last.img.px[i][4] \notin {0, 255}
  /\ \E i \in Pixels : processedImage.px[i] # last.img.px[i]

C3_EmptyManualSubmit ==
  [][/\ \A ctx \in BOOLEAN :
          handleProcessClick(ctx) /\ mode = "manual" /\ selections = <<>>
            => /\ alertOpen'
               /\ UNCHANGED <<calls, status, errorMsg, mode, selections,
                              currentSelection, isDrawing, startPoint>>
     /\ EditorMounted(originalImage, processedImage) /\ mode = "manual" /\ selections = <<>>
          => \A c \in BagToSet(calls') : CopiesIn(c, calls') <= CopiesIn(c, calls)]_vars

\* C3 witness: the alert is open over a manual Editor with an empty list, a
\* drag in progress and nothing in flight
C3_Witness ==
  /\ alertOpen /\ mode = "manual" /\ selections = <<>>
  /\ isDrawing /\ currentSelection # Null
  /\ calls = EmptyBag /\ status = "IDLE"

\* C4: the committed list is empty in every reachable state whose mode is
\* not manual.
C4_EmptyOutsideManual == mode # "manual" => selections = <<>>

\* C5: when compositing fails (a load of the original, the mask or the
\* replacement fails, or no drawing context is obtained) the uncomposited
\* replacement becomes the processed image and the status becomes SUCCESS.
C5_CompositeFallback ==
  [][\A call \in BagToSet(calls), kind \in ResultKinds, fail \in Failures :
       ServiceReturns(call, kind, fail)
         => /\ processedImage' = ServiceImage[kind]
            /\ status' = "SUCCESS"
            /\ UNCHANGED errorMsg]_vars

\* C5 witness: a manual submission ended in the fallback
C5_Witness ==
  /\ last.outcome = "fallback" /\ last.mode = "manual" /\ last.mask # Null
  /\ status = "SUCCESS" /\ processedImage = last.result
  /\ Decodable(last.result)

\* C6: when the service call fails or returns no image data the status
\* becomes ERROR with an error message and the processed image is not set.
C6_ServiceError ==
  [][\A call \in BagToSet(calls) :
       ServiceFails(call)
         => /\ status' = "ERROR" /\ errorMsg'
            /\ UNCHANGED processedImage]_vars

\* C6 witness: a failed submission, no processed image
C6_Witness ==
  /\ status = "ERROR" /\ errorMsg /\ processedImage = Null
  /\ originalImage # Null /\ calls = EmptyBag

\* C7: a submit click in auto or tiled mode calls onProcess with a null mask
\* and the current mode, whatever the committed list and the drag state.
C7_NullMaskOutsideManual ==
  [][\A ctx \in BOOLEAN :
       handleProcessClick(ctx) /\ mode # "manual"
         => /\ calls' = calls (+) SetToBag({[img |-> originalImage, mask |-> Null,
                                             mode |-> mode, rects |-> selections]})
            /\ status' = "PROCESSING"]_vars

\* C7 witness: a tiled or auto call in flight that was submitted over a
\* non-empty committed list
C7_Witness ==
  \E c \in BagToSet(calls) : c.mode # "manual" /\ c.mask = Null /\ c.rects # <<>>

\* C8: the processed image is a composite (or its fallback) only for a
\* manual submission with a mask; for an auto or tiled submission it is the
\* image the service returned, unmodified.
C8_CompositeOnlyManual ==
  /\ last.outcome \in {"composite", "fallback"} => last.mode = "manual" /\ last.mask # Null
  /\ last.outcome # "none" /\ last.mode # "manual"
       => last.outcome = "raw" /\ processedImage = last.result

\* C8 witness: a tiled submission answered by an image of another size
C8_Witness ==
  /\ last.outcome = "raw" /\ last.mode = "tiled"
  /\ processedImage = last.result /\ processedImage.w # last.img.w

\* C9: never two calls of the external service in flight.
C9_SingleInFlight == BagCardinality(calls) <= 1

\* C10: the mask of a manual submission is the rasterization of the
\* committed list at the click; a call in flight changes only by being
\* answered; and the composite is made from the call's own original and mask.
C10_MaskAtClick ==
  [][/\ \A ctx \in BOOLEAN :
          handleProcessClick(ctx) /\ mode = "manual" /\ calls' # calls
            => calls' = calls (+) SetToBag({[img |-> originalImage,
                           mask |-> GenerateMask(selections, imageRef.w, imageRef.h),
                           mode |-> "manual", rects |-> selections]})
     /\ \A c \in BagToSet(calls) :
          \/ CopiesIn(c, calls') >= CopiesIn(c, calls)
          \/ ServiceFails(c)
          \/ \E kind \in ResultKinds, fail \in Failures \cup {"none"} :
               ServiceReturns(c, kind, fail)
     /\ \A c \in BagToSet(calls), kind \in ResultKinds :
          ServiceReturns(c, kind, "none") /\ NeedsComposite(c)
            => processedImage' = CompositeOf(c.img, c.mask, ServiceImage[kind])]_vars

\* C10 witness: a manual call in flight whose list was edited after the click
C10_Witness ==
  \E c \in BagToSet(calls) :
    /\ NeedsComposite(c) /\ c.rects # selections
    /\ c.mask = GenerateMask(c.rects, c.img.w, c.img.h)

Modes == {"auto", "tiled", "manual"}

\* C11: in a state where the mode is not manual or a submission is in
\* flight, start, move and end change neither the committed list nor the
\* in-progress rectangle.
C11_DragIgnored ==
  [][(mode # "manual" \/ isProcessing)
       /\ (\/ \E client \in AppPointers : handleStart(client) \/ handleMove(client)
           \/ handleEnd)
       => UNCHANGED <<selections, currentSelection>>]_vars

\* C12: right after a mode button changed the mode there is no in-progress
\* rectangle and no active drag.
C12_NoDragAcrossModes ==
  [][\A m \in Modes :
       SelectMode(m) /\ m # mode => currentSelection' = Null /\ ~isDrawing']_vars

\* the pixel of img the stretch to w x h samples for destination pixel i
Stretched(img, w, h, i) ==
  PixelAt(img, ((2 * XOf(i, w) + 1) * img.w) \div (2 * w),
               ((2 * YOf(i, w) + 1) * img.h) \div (2 * h))

\* C17: a composite of a replacement of another resolution has exactly the
\* original's width and height, and where the mask is fully white and the
\* stretched replacement pixel opaque it shows that stretched pixel.
C17_ResampledToOriginal ==
  Composited /\ (last.result.w # last.img.w \/ last.result.h # last.img.h) =>
    /\ processedImage.w = last.img.w /\ processedImage.h = last.img.h
    /\ Len(processedImage.px) = last.img.w * last.img.h
    /\ \A i \in Pixels :
         MaskAlpha(i) = 255 /\ Stretched(last.result, last.img.w, last.img.h, i)[4] = 255
           => processedImage.px[i] = Stretched(last.result, last.img.w, last.img.h, i)

\* C17 witness: a composite of a replacement twice the original's size in
\* which a replaced pixel shows
C17_Witness ==
  /\ Composited
  /\ last.result.w = 2 * last.img.w /\ last.result.h = 2 * last.img.h
  /\ processedImage.w = last.img.w /\ processedImage.h = last.img.h
  /\ \E i \in Pixels : MaskAlpha(i) = 255 /\ processedImage.px[i] # last.img.px[i]

\* C18: every final image of a successful submission has the pixel
\* dimensions of the original, in every mode and on the fallback path.
C18_FinalDimensions ==
  last.outcome # "none" =>
    processedImage.w = last.img.w /\ processedImage.h = last.img.h

\* C19: for every (mode, mask) pair passed to removeWatermark the mode alone
\* selects the instruction (auto, tiled or manual), and a mask is attached to
\* the request only for manual.
C19_PromptByMode ==
  \A c \in BagToSet(calls) :
    /\ Prompt(c.mask, c.mode) = c.mode
    /\ Len(Parts(c.img, c.mask, c.mode)) = (IF c.mode = "manual" THEN 3 ELSE 2)

\* C13: end() appends the in-progress rectangle to the end of the committed
\* list iff a drag is active and the rectangle is wider than 5 and higher
\* than 5 image pixels; in every case it leaves no in-progress rectangle, no
\* anchor point and no active drag.
C13_EndCommits ==
  [][handleEnd =>
       /\ selections' =
            IF /\ isDrawing /\ currentSelection # Null
               /\ currentSelection.width > 5 * SubPixel
               /\ currentSelection.height > 5 * SubPixel
            THEN selections \o <<currentSelection>>
            ELSE selections
       /\ currentSelection' = Null /\ startPoint' = Null /\ ~isDrawing']_vars

\* C13 witness: two rectangles were committed one after the other, the drag
\* state is cleared, and the list shows them in commit order
C13_Witness ==
  /\ Len(selections) = 2 /\ selections[1] # selections[2]
  /\ selections[2].width > 5 * SubPixel /\ selections[2].height > 5 * SubPixel
  /\ currentSelection = Null /\ startPoint = Null /\ ~isDrawing

\* C14: undo on a list of N >= 1 rectangles leaves its first N - 1
\* rectangles in their order; on the empty list slice(0, -1) gives the
\* empty list.
C14_UndoDropsLast ==
  [][/\ undoSelection =>
          /\ Len(selections') = Len(selections) - 1
          /\ \A i \in 1..Len(selections') : selections'[i] = selections[i]
     /\ DropLast(<<>>) = <<>>]_vars

\* C14 witness: undo is offered on a list of two different rectangles
C14_Witness ==
  /\ EditorMounted(originalImage, processedImage) /\ mode = "manual"
  /\ Len(selections) = 2 /\ selections[1] # selections[2]

\* rect has whole-pixel coordinates
Aligned(rect) ==
  /\ rect.x % SubPixel = 0 /\ rect.y % SubPixel = 0
  /\ rect.width % SubPixel = 0 /\ rect.height % SubPixel = 0

\* pixel (x, y) lies inside rect
Inside(rect, x, y) ==
  /\ rect.x <= x * SubPixel /\ (x + 1) * SubPixel <= rect.x + rect.width
  /\ rect.y <= y * SubPixel /\ (y + 1) * SubPixel <= rect.y + rect.height

C16_RasterOfSet ==
  Len(selections) = 2 =>
    /\ Rasterize(selections, MaskWidth, MaskHeight)
         = Rasterize(<<selections[2], selections[1]>>, MaskWidth, MaskHeight)
    /\ selections[1] = selections[2] =>
         Rasterize(selections, MaskWidth, MaskHeight)
           = Rasterize(<<selections[1]>>, MaskWidth, MaskHeight)

\* C20: a newly selected image starts with an empty committed list and no
\* in-progress drag.
C20_ClearedOnNewImage ==
  [][\A k \in DOMAIN reads :
       handleImageSelected(k) /\ originalImage' # originalImage
         => selections' = <<>> /\ currentSelection' = Null /\ ~isDrawing']_vars

\* ---- C22
\* A point (in SubPixel units) is the image-space position of a client
\* position under the display box of the current state.
MapsTo(px, py, client) ==
  /\ px * RectWidth = (client[1] - CanvasBox.left) * CanvasWidth * SubPixel
  /\ py * RectHeight = (client[2] - CanvasBox.top) * CanvasHeight * SubPixel

\* C22: the point a pointer event is mapped to is
\* ((clientX - originX) * nativeWidth / displayWidth,
\*  (clientY - originY) * nativeHeight / displayHeight), computed from the
\* display box of the moment of the event, and it is not clamped: the anchor
\* set by a start is that point, and the corner of the in-progress rectangle
\* that a move sets opposite the anchor is that point, inside the canvas or
\* outside it.
C22_NoClamping ==
  [][\A client \in DragPointers :
       /\ (handleStart(client) /\ mode = "manual" /\ ~isProcessing)
            => MapsTo(startPoint'.x, startPoint'.y, client)
       /\ (handleMove(client) /\ mode = "manual" /\ isDrawing /\ startPoint # Null)
            => \E px \in {currentSelection'.x, currentSelection'.x + currentSelection'.width},
                  py \in {currentSelection'.y, currentSelection'.y + currentSelection'.height} :
                 /\ MapsTo(px, py, client)
                 /\ px = startPoint.x \/ currentSelection'.width = Abs(px - startPoint.x)
                 /\ py = startPoint.y \/ currentSelection'.height = Abs(py - startPoint.y)]_vars

\* a committed rectangle reaches below 0 on both axes and the rectangle in
\* progress reaches beyond the native size on both axes
C22_Witness ==
  /\ imageLoaded /\ isDrawing /\ currentSelection # Null
  /\ selections # <<>>
  /\ selections[1].x < 0 /\ selections[1].y < 0
  /\ currentSelection.x + currentSelection.width > CanvasWidth * SubPixel
  /\ currentSelection.y + currentSelection.height > CanvasHeight * SubPixel

\* ---- C23
NonNegative(rect) == rect.width >= 0 /\ rect.height >= 0

AllNonNegative ==
  /\ currentSelection # Null => NonNegative(currentSelection)
  /\ \A k \in DOMAIN selections : NonNegative(selections[k])

\* C23: a move during an active drag in manual mode sets the in-progress
\* rectangle to the bounding box of the anchor a and the pointer's point p,
\* x = min(a.x, p.x), y = min(a.y, p.y), width = |p.x - a.x|,
\* height = |p.y - a.y|, and leaves the anchor as it was; in every reachable
\* state the in-progress rectangle and every committed rectangle have
\* width >= 0 and height >= 0.
C23_BoundingBox ==
  /\ []AllNonNegative
  /\ [][\A client \in DragPointers :
          (handleMove(client) /\ mode = "manual" /\ isDrawing /\ startPoint # Null)
            => LET a == startPoint
                   p == getCanvasCoordinates(client)
               IN  /\ currentSelection'.x = (IF a.x < p.x THEN a.x ELSE p.x)
                   /\ currentSelection'.y = (IF a.y < p.y THEN a.y ELSE p.y)
                   /\ currentSelection'.width = (IF p.x >= a.x THEN p.x - a.x ELSE a.x - p.x)
                   /\ currentSelection'.height = (IF p.y >= a.y THEN p.y - a.y ELSE a.y - p.y)
                   /\ startPoint' = a]_vars

\* a drag whose pointer went left of and above its anchor, after another
\* such rectangle was committed
C23_Witness ==
  /\ isDrawing /\ startPoint # Null /\ currentSelection # Null
  /\ currentSelection.x < startPoint.x /\ currentSelection.y < startPoint.y
  /\ currentSelection.width > 0 /\ currentSelection.height > 0
  /\ selections # <<>>

\* ---- C24
\* C24: in every reachable state every rectangle of the committed list has
\* width > 5 and height > 5 (pixels): no sequence of start, move, end, undo,
\* clear and mode events places a smaller rectangle in the list.
C24_CommittedAboveThreshold ==
  \A k \in DOMAIN selections :
    /\ selections[k].width > MinSize * SubPixel
    /\ selections[k].height > MinSize * SubPixel

\* two committed rectangles, the newer one 6 by 6 pixels
C24_Witness ==
  /\ Len(selections) = 2
  /\ selections[2].width = (MinSize + 1) * SubPixel
  /\ selections[2].height = (MinSize + 1) * SubPixel

\* ---- C27
\* C27: clear empties the committed list, and clear and undo both leave the
\* mode, the in-progress rectangle, the anchor point, the drawing flag and
\* the submission status as they were.
C27_ClearUndoFrame ==
  [][/\ clearSelections => selections' = <<>>
     /\ (clearSelections \/ undoSelection)
          => UNCHANGED <<mode, currentSelection, startPoint, isDrawing, status>>]_vars

\* the list was emptied while a submission was in flight and a drag was in
\* progress: the drag and the PROCESSING status are still there
C27_Witness ==
  /\ mode = "manual" /\ selections = <<>>
  /\ status = "PROCESSING"
  /\ isDrawing /\ startPoint # Null
  /\ currentSelection # Null /\ currentSelection.width > 0

\* ---- C29
\* C29: in every reachable Editor state the drawing flag is set if and only
\* if an anchor point exists, and if and only if an in-progress rectangle
\* exists: the in-progress rectangle (currentSelection holds at most one)
\* exists only while a drag is active.
C29_DragStateAgrees ==
  /\ isDrawing <=> startPoint # Null
  /\ isDrawing <=> currentSelection # Null

\* a second drag is under way after a first one was ended and committed
C29_Witness ==
  /\ selections # <<>>
  /\ isDrawing /\ startPoint # Null /\ currentSelection # Null
  /\ currentSelection.width > 0 /\ currentSelection.height > 0
  /\ currentSelection # selections[1]

\* ---- C30
\* C30: selecting manual mode while the mode is manual leaves the committed
\* list, the in-progress rectangle and the drag state (drawing flag, anchor)
\* unchanged.
C30_ManualAgainNoOp ==
  [][(SelectMode("manual") /\ mode = "manual")
       => UNCHANGED <<selections, currentSelection, isDrawing, startPoint>>]_vars

\* manual mode with a committed rectangle and a drag in progress, where the
\* manual button is pressed again
C30_Witness ==
  /\ mode = "manual" /\ Len(selections) = MaxList
  /\ isDrawing /\ currentSelection # Null /\ currentSelection.height > 0
  /\ ENABLED SelectMode("manual")

\* ---- C25
\* the green channel of pixel i of the mask resampled to the original's size
MaskGreen(i) == Resample(last.mask, last.img.w, last.img.h).px[i][2]

\* channel c of `pixel` is the blend of replacement over original at opacity
\* g / 255, to within the rounding of the 8-bit arithmetic
Blend(pixel, i, g) ==
  /\ pixel[4] = 255
  /\ \A c \in 1..3 :
       Abs(255 * pixel[c] - (g * Replacement(i)[c] + (255 - g) * last.img.px[i][c])) <= 255

\* C25: in a composited result the alpha applied to a pixel is the green
\* channel of the resampled mask pixel, whatever the mask's red, blue and
\* alpha channels are: where original and replacement are opaque, green 0
\* keeps the original pixel, green 255 gives the replacement pixel, and a
\* green value g strictly between gives the source-over blend of the
\* replacement at opacity g/255 over the original, not a hard cut.
C25_AlphaIsGreen ==
  Composited =>
    \A i \in Pixels :
      /\ MaskAlpha(i) = MaskGreen(i)
      /\ (last.img.px[i][4] = 255 /\ Replacement(i)[4] = 255) =>
           /\ MaskGreen(i) = 0 => processedImage.px[i] = last.img.px[i]
           /\ MaskGreen(i) = 255 => processedImage.px[i] = Replacement(i)
           /\ MaskGreen(i) \in 1..254 => Blend(processedImage.px[i], i, MaskGreen(i))

\* a composite under a mask whose red, blue and alpha channels differ from
\* its green one, with a pixel blended at partial opacity that equals
\* neither the original nor the replacement
C25_Witness ==
  /\ Composited
  /\ \E i \in Pixels : Resample(last.mask, last.img.w, last.img.h).px[i][1] = 255 /\ MaskGreen(i) = 0
  /\ \E i \in Pixels : Resample(last.mask, last.img.w, last.img.h).px[i][4] = 128
  /\ \E i \in Pixels :
       /\ MaskGreen(i) \in 1..254
       /\ last.img.px[i][4] = 255 /\ Replacement(i)[4] = 255
       /\ processedImage.px[i] # last.img.px[i]
       /\ processedImage.px[i] # Replacement(i)

\* ---- C28
\* C28: whenever a processed image is displayed (next to the original), it
\* is the result of a submission made for the original image now loaded: a
\* response to a submission issued for an earlier image never becomes the
\* processed image shown next to a new original.
C28_ResultOfCurrentImage ==
  (originalImage # Null /\ processedImage # Null) => last.img = originalImage

\* ---- C26
\* C26: the three image loads of a composite are started together (no load
\* of a composite in progress is waiting for another to finish), compositing
\* proceeds only after all three have succeeded, and the value compositeImage
\* returns is determined by its three arguments alone, the same for every
\* order in which the loads complete or fail: the composite when all three
\* images decode, the service's image otherwise.
C26_LoadsConcurrent ==
  /\ \A c \in BagToSet(calls) :
       IsComposite(c) => \A n \in LoadNames : c.loads[n] \in {"loading", "loaded", "failed"}
  /\ last.outcome = "composite" => AllLoaded(last.loads)
  /\ last.outcome \in {"composite", "fallback"} =>
       processedImage =
         IF \A n \in LoadNames : Decodable(LoadSource(last, n))
         THEN Composite(last.img, last.mask, last.result)
         ELSE last.result

\* a composite whose loads completed in the order result, mask, original
C26_Witness ==
  /\ last.outcome = "composite"
  /\ last.order = <<"result", "mask", "original">>
  /\ processedImage # last.result

\* ---- C21
\* C21: every submission terminates: given that the service call resolves
\* or rejects in the end and that each image load fires onload or onerror in
\* the end, status PROCESSING is always followed by SUCCESS with a processed
\* image (the final or the degraded one) set, or by ERROR with the error
\* message set; no failure path leaves the submission in PROCESSING.
C21_SubmissionTerminates ==
  (status = "PROCESSING")
    ~> \/ status = "SUCCESS" /\ processedImage # Null
       \/ status = "ERROR" /\ errorMsg

\* a submission whose mask failed to load ended in SUCCESS with the degraded
\* image (the service's own)
C21_Witness ==
  /\ status = "SUCCESS"
  /\ last.outcome = "fallback"
  /\ last.loads["mask"] = "failed"
  /\ processedImage = last.result

\* ---- C31
\* C31: Editor state does not survive a completed submission: when the user
\* chooses re-edit after a success, the Editor starts again with mode auto,
\* an empty committed list and no drag in progress; a failed submission
\* (status becomes ERROR) leaves the Editor's mode and committed list as
\* they were, so that the same submission can be retried.
C31_EditorResetOnSuccessOnly ==
  [][/\ ReEdit =>
          /\ EditorMounted(originalImage', processedImage')
          /\ mode' = "auto" /\ selections' = <<>>
          /\ ~isDrawing' /\ startPoint' = Null /\ currentSelection' = Null
     /\ \A call \in BagToSet(calls) :
          ServiceFails(call) =>
            /\ status' = "ERROR"
            /\ UNCHANGED <<mode, selections>>]_vars

\* the Editor is on screen again after a success (status is still SUCCESS,
\* so re-edit was chosen), in its initial state
C31_Witness ==
  /\ status = "SUCCESS"
  /\ EditorMounted(originalImage, processedImage)
  /\ mode = "auto" /\ selections = <<>> /\ ~isDrawing
  /\ calls = EmptyBag

\* ---- C32
\* C32: in every reachable application state an error message is present if
\* and only if status = ERROR: starting a submission or selecting an image
\* clears the message, and a SUCCESS state never shows an error message.
C32_ErrorIffMessage == errorMsg <=> status = "ERROR"

\* ---- C33
\* what a start at `client` gives when it restarts the drag: the anchor is
\* the pointer's point, the in-progress rectangle the zero-size rectangle at
\* it, the committed list as it was
Restarts(client) ==
  ENABLED (/\ handleStart(client)
           /\ isDrawing'
           /\ startPoint' = getCanvasCoordinates(client)
           /\ currentSelection' = Rect(getCanvasCoordinates(client).x,
                                       getCanvasCoordinates(client).y, 0, 0)
           /\ selections' = selections)

\* a drag is active in manual mode in the Editor on screen
DragActive ==
  /\ EditorMounted(originalImage, processedImage) /\ ~alertOpen
  /\ mode = "manual" /\ isDrawing

\* C33 as stated: a start(p) received in manual mode while a drag is active
\* restarts the drag at p: the anchor becomes p, the in-progress rectangle
\* becomes the zero-size rectangle at p, and the previous in-progress
\* rectangle is dropped without being committed (the committed list is
\* unchanged).
C33_StartRestarts ==
  DragActive => \A client \in EditorPointers : InBox(client) => Restarts(client)

\* C33 amended: the same, for a start received while no submission is in
\* flight (while one is, the start is ignored and the drag goes on).
C33_StartRestartsIdle ==
  (DragActive /\ ~isProcessing) =>
    \A client \in EditorPointers : InBox(client) => Restarts(client)

\* a drag with a rectangle large enough to commit is active, no submission
\* is in flight, and a start can arrive at a point other than its anchor
C33_Witness ==
  /\ DragActive /\ ~isProcessing
  /\ currentSelection # Null /\ BigEnough(currentSelection)
  /\ \E client \in EditorPointers :
       InBox(client) /\ getCanvasCoordinates(client) # startPoint

====
